---- MODULE Spec2Model ----
(***************************************************************************)
(* The account-session actions of app/actions/authActions.js: four login   *)
(* actions and the logout action, all created under the one ID 'auth', so  *)
(* the value an action returns becomes the session and a thrown error      *)
(* returns no value.  Each login is an async function: it runs up to its   *)
(* next await in one step and resumes when the awaited collaborator        *)
(* settles, so several logins can be in flight at once.                    *)
(***************************************************************************)
EXTENDS Integers, Sequences, FiniteSets, TLC

VARIABLES
    session,  \* the value the 'auth' actions returned last: Null or an account record
    calls,    \* per invocation of a login function: where it is, its props, what it
              \* called (log), the error it threw or the session it returned
    order,    \* the logins in flight, in the order they were invoked
    last,     \* the action that took the latest step; for logout, its resetBalanceState calls
    winner    \* the action that returned most recently

vars == <<session, calls, order, last, winner>>

(***************************************************************************)
(* Bounds and input domains                                                *)
(***************************************************************************)
MaxPassLen == 5

MIN_PASSPHRASE_LEN == 4

Calls == {"a", "b"}

Keys == {"k1", "k2"}

AccountIndexes == {0, 2}

Null == <<>>

\* Strings are modelled by what the key library makes of them: a kind and,
\* for well-formed ones, the private key they stand for.
Str(t, k) == [t |-> t, k |-> k]

Junk == Str("junk", "none")

WifInputs == {Str("wif", "k1"), Str("priv", "k2"), Junk}

AddressInputs == {Str("addr", "k2"), Junk}

Passphrases == {[len |-> n, id |-> 1] : n \in 0..MaxPassLen} \cup {[len |-> MaxPassLen, id |-> 2]}

\* The passphrase every encrypted key of the model was encrypted under.
Secret == [len |-> MaxPassLen, id |-> 1]

EncryptedInputs == {Str("nep2", "k1"), Junk}

\* "hexjunk" is a hex string that is no public key: it encodes, but no
\* account can be made of the encoding.
PublicKeyInputs == {Str("pub", "k2"), Str("hexjunk", "none"), Junk}

(***************************************************************************)
(* Collaborators: the key library, core/wallet and the connectivity probe  *)
(***************************************************************************)
isWIF(s) == s.t = "wif"

isPrivateKey(s) == s.t = "priv"

isAddress(s) == s.t = "addr"

isNEP2(s) == s.t = "nep2"

validatePassphraseLength(p) == p.len >= MIN_PASSPHRASE_LEN

decryptOk(enc, p) == p = Secret

decryptAsync(enc, p) == Str("wif", enc.k)

encodeOk(pk) == pk.t \in {"pub", "hexjunk"}

getPublicKeyEncoded(pk) == IF pk.t = "pub" THEN Str("pubenc", pk.k) ELSE Str("junkenc", "none")

AccountOk(s) == s.t \in {"wif", "priv", "pubenc", "addr"}

Account(s) == [WIF |-> Str("wif", s.k), address |-> Str("addr", s.k)]

\* Variant: the probe reports connectivity whatever the resolution did.
checkAlwaysConnected(err) == TRUE

checkForInternetConnectivity(err) == IF err THEN FALSE ELSE TRUE

bindArgsFromN(fn, n, arg) == [fn |-> fn, from |-> n, bound |-> arg]

(***************************************************************************)
(* Call records                                                            *)
(***************************************************************************)
InFlight == {"decrypt", "upgrade", "probe"}

Entry(fn, args, out) == [fn |-> fn, args |-> args, out |-> out]

Bool(b) == IF b THEN "true" ELSE "false"

Idle == [pc |-> "idle", method |-> "none", args |-> Null, wif |-> Null,
         log |-> <<>>, error |-> "", result |-> Null, superseded |-> FALSE]

Fresh(method, args) == [Idle EXCEPT !.method = method, !.args = args]

SetOut(log, out) == [log EXCEPT ![Len(log)].out = out]

Remove(seq, c) == SelectSeq(seq, LAMBDA x : x # c)

LoginStep(c) == [op |-> "login", call |-> c, resets |-> 0, prior |-> "-"]

Before(seq, d, c) == \E i, j \in 1..Len(seq) : i < j /\ seq[i] = d /\ seq[j] = c

\* A logout, or a login initiated later, that completes while login d is
\* still in flight supersedes d.
Supersede(cs, c) == [d \in Calls |->
                        IF d # c /\ cs[d].pc \in InFlight /\ (c = "logout" \/ Before(order, d, c))
                        THEN [cs[d] EXCEPT !.superseded = TRUE] ELSE cs[d]]

\* Variant: a failed login also clears the session.
ThrowClearsSession(c, rec, msg) ==
    /\ calls' = [calls EXCEPT ![c] = [rec EXCEPT !.pc = "failed", !.error = msg]]
    /\ order' = Remove(order, c)
    /\ last' = LoginStep(c)
    /\ session' = Null
    /\ UNCHANGED winner

\* The async function throws: the promise rejects and no value is returned.
Throw(c, rec, msg) ==
    /\ calls' = [calls EXCEPT ![c] = [rec EXCEPT !.pc = "failed", !.error = msg]]
    /\ order' = Remove(order, c)
    /\ last' = LoginStep(c)
    /\ UNCHANGED <<session, winner>>

\* The async function suspends at an await.
Await(c, rec, pc) ==
    /\ calls' = [calls EXCEPT ![c] = [rec EXCEPT !.pc = pc]]
    /\ order' = IF c \in {order[i] : i \in 1..Len(order)} THEN order ELSE Append(order, c)
    /\ last' = LoginStep(c)
    /\ UNCHANGED <<session, winner>>

\* Variant: a login superseded while in flight does not replace the session.
ReturnUnlessSuperseded(c, rec, value) ==
    /\ calls' = Supersede([calls EXCEPT ![c] = [rec EXCEPT !.pc = "done", !.result = value]], c)
    /\ order' = Remove(order, c)
    /\ session' = IF rec.superseded THEN session ELSE value
    /\ last' = LoginStep(c)
    /\ winner' = c

\* The async function returns: the returned value replaces the session.
Return(c, rec, value) ==
    /\ calls' = Supersede([calls EXCEPT ![c] = [rec EXCEPT !.pc = "done", !.result = value]], c)
    /\ order' = Remove(order, c)
    /\ session' = value
    /\ last' = LoginStep(c)
    /\ winner' = c

(***************************************************************************)
(* wifLoginActions                                                         *)
(***************************************************************************)
wifLoginActions(c, wif) ==
    /\ calls[c].pc \notin InFlight
    /\ LET valid == isWIF(wif) \/ isPrivateKey(wif)
           r0 == Fresh("wif", [wif |-> wif])
           r1 == [r0 EXCEPT !.log = <<Entry("isWIF||isPrivateKey", <<wif>>, Bool(valid))>>]
       IN IF ~valid
          THEN Throw(c, r1, "Invalid private key entered")
          ELSE Await(c, [r1 EXCEPT !.log = r1.log \o
                            <<Entry("Account", <<wif>>, "ok"),
                              Entry("dns.resolve", <<"google.com", "A">>, "pending")>>],
                     "probe")

wifLoginResume(c, err) ==
    /\ calls[c].pc = "probe"
    /\ calls[c].method = "wif"
    /\ LET account == Account(calls[c].args.wif)
           hasInternetConnectivity == checkForInternetConnectivity(err)
           rec == [calls[c] EXCEPT !.log = SetOut(@, IF err THEN "err" ELSE "ok")]
       IN Return(c, rec, [wif |-> account.WIF,
                          address |-> account.address,
                          isHardwareLogin |-> FALSE,
                          hasInternetConnectivity |-> hasInternetConnectivity])

(***************************************************************************)
(* watchOnlyLoginActions                                                   *)
(***************************************************************************)
\* Variant: the address is checked but an invalid one is not refused.
watchOnlyLoginActionsNoRefusal(c, address) ==
    /\ calls[c].pc \notin InFlight
    /\ LET valid == isAddress(address)
           r0 == Fresh("watch", [address |-> address])
           r1 == [r0 EXCEPT !.log = <<Entry("isAddress", <<address>>, Bool(valid))>>]
       IN Await(c, [r1 EXCEPT !.log = r1.log \o
                       <<Entry("dns.resolve", <<"google.com", "A">>, "pending")>>],
                "probe")

watchOnlyLoginActions(c, address) ==
    /\ calls[c].pc \notin InFlight
    /\ LET valid == isAddress(address)
           r0 == Fresh("watch", [address |-> address])
           r1 == [r0 EXCEPT !.log = <<Entry("isAddress", <<address>>, Bool(valid))>>]
       IN IF ~valid
          THEN Throw(c, r1, "Invalid public key entered")
          ELSE Await(c, [r1 EXCEPT !.log = r1.log \o
                            <<Entry("dns.resolve", <<"google.com", "A">>, "pending")>>],
                     "probe")

watchOnlyLoginResume(c, err) ==
    /\ calls[c].pc = "probe"
    /\ calls[c].method = "watch"
    /\ LET hasInternetConnectivity == checkForInternetConnectivity(err)
           rec == [calls[c] EXCEPT !.log = SetOut(@, IF err THEN "err" ELSE "ok")]
       IN Return(c, rec, [address |-> calls[c].args.address,
                          isHardwareLogin |-> FALSE,
                          isWatchOnly |-> TRUE,
                          hasInternetConnectivity |-> hasInternetConnectivity])

(***************************************************************************)
(* nep2LoginActions                                                        *)
(***************************************************************************)
\* Variant: the encrypted-key format is checked before the passphrase length.
nep2LoginActionsGatesSwapped(c, passphrase, encryptedWIF) ==
    /\ calls[c].pc \notin InFlight
    /\ LET longEnough == validatePassphraseLength(passphrase)
           wellFormed == isNEP2(encryptedWIF)
           r0 == Fresh("nep2", [passphrase |-> passphrase, encryptedWIF |-> encryptedWIF])
           r1 == [r0 EXCEPT !.log = <<Entry("isNEP2", <<encryptedWIF>>, Bool(wellFormed))>>]
           r2 == [r1 EXCEPT !.log = Append(@,
                     Entry("validatePassphraseLength", <<passphrase>>, Bool(longEnough)))]
       IN IF ~wellFormed
          THEN Throw(c, r1, "Invalid encrypted key entered")
          ELSE IF ~longEnough
          THEN Throw(c, r2, "Passphrase too short")
          ELSE Await(c, [r2 EXCEPT !.log = Append(@,
                            Entry("decryptAsync", <<encryptedWIF, passphrase>>, "pending"))],
                     "decrypt")

nep2LoginActions(c, passphrase, encryptedWIF) ==
    /\ calls[c].pc \notin InFlight
    /\ LET longEnough == validatePassphraseLength(passphrase)
           wellFormed == isNEP2(encryptedWIF)
           r0 == Fresh("nep2", [passphrase |-> passphrase, encryptedWIF |-> encryptedWIF])
           r1 == [r0 EXCEPT !.log =
                     <<Entry("validatePassphraseLength", <<passphrase>>, Bool(longEnough))>>]
           r2 == [r1 EXCEPT !.log = Append(@, Entry("isNEP2", <<encryptedWIF>>, Bool(wellFormed)))]
       IN IF ~longEnough
          THEN Throw(c, r1, "Passphrase too short")
          ELSE IF ~wellFormed
          THEN Throw(c, r2, "Invalid encrypted key entered")
          ELSE Await(c, [r2 EXCEPT !.log = Append(@,
                            Entry("decryptAsync", <<encryptedWIF, passphrase>>, "pending"))],
                     "decrypt")

\* Variant: the derived account is published before the upgrade is awaited.
nep2LoginDecryptedPublishesEarly(c) ==
    /\ calls[c].pc = "decrypt"
    /\ LET encryptedWIF == calls[c].args.encryptedWIF
           passphrase == calls[c].args.passphrase
       IN IF ~decryptOk(encryptedWIF, passphrase)
          THEN Throw(c, [calls[c] EXCEPT !.log = SetOut(@, "rejected")], "decryptAsync rejected")
          ELSE LET wif == decryptAsync(encryptedWIF, passphrase)
                   account == Account(wif)
               IN /\ calls' = [calls EXCEPT ![c] = [@ EXCEPT
                              !.pc = "upgrade",
                              !.wif = wif,
                              !.log = SetOut(@, "ok") \o
                                  <<Entry("Account", <<wif>>, "ok"),
                                    Entry("upgradeNEP6AddAddresses", <<encryptedWIF, wif>>, "pending")>>]]
                  /\ session' = [wif |-> account.WIF, address |-> account.address,
                                 isHardwareLogin |-> FALSE]
                  /\ last' = LoginStep(c)
                  /\ UNCHANGED <<order, winner>>

\* Variant: a decryption failure is reported as a malformed encrypted key.
nep2LoginDecryptedRelabelsError(c) ==
    /\ calls[c].pc = "decrypt"
    /\ LET encryptedWIF == calls[c].args.encryptedWIF
           passphrase == calls[c].args.passphrase
       IN IF ~decryptOk(encryptedWIF, passphrase)
          THEN Throw(c, [calls[c] EXCEPT !.log = SetOut(@, "rejected")],
                     "Invalid encrypted key entered")
          ELSE LET wif == decryptAsync(encryptedWIF, passphrase)
               IN Await(c, [calls[c] EXCEPT
                              !.wif = wif,
                              !.log = SetOut(@, "ok") \o
                                  <<Entry("Account", <<wif>>, "ok"),
                                    Entry("upgradeNEP6AddAddresses", <<encryptedWIF, wif>>, "pending")>>],
                        "upgrade")

\* decryptAsync settles: the function derives the account and calls the
\* address-book upgrade, or rethrows the decryption error.
nep2LoginDecrypted(c) ==
    /\ calls[c].pc = "decrypt"
    /\ LET encryptedWIF == calls[c].args.encryptedWIF
           passphrase == calls[c].args.passphrase
       IN IF ~decryptOk(encryptedWIF, passphrase)
          THEN Throw(c, [calls[c] EXCEPT !.log = SetOut(@, "rejected")], "decryptAsync rejected")
          ELSE LET wif == decryptAsync(encryptedWIF, passphrase)
               IN Await(c, [calls[c] EXCEPT
                              !.wif = wif,
                              !.log = SetOut(@, "ok") \o
                                  <<Entry("Account", <<wif>>, "ok"),
                                    Entry("upgradeNEP6AddAddresses", <<encryptedWIF, wif>>, "pending")>>],
                        "upgrade")

\* Variant: a rejected upgrade is ignored and the login goes on.
nep2LoginUpgradedIgnoresRejection(c, rejected) ==
    /\ calls[c].pc = "upgrade"
    /\ Await(c, [calls[c] EXCEPT
                    !.log = SetOut(@, IF rejected THEN "rejected" ELSE "ok") \o
                        <<Entry("dns.resolve", <<"google.com", "A">>, "pending")>>],
             "probe")

\* upgradeNEP6AddAddresses settles: the function probes connectivity, or
\* rethrows the rejection.
nep2LoginUpgraded(c, rejected) ==
    /\ calls[c].pc = "upgrade"
    /\ IF rejected
       THEN Throw(c, [calls[c] EXCEPT !.log = SetOut(@, "rejected")],
                  "upgradeNEP6AddAddresses rejected")
       ELSE Await(c, [calls[c] EXCEPT
                        !.log = SetOut(@, "ok") \o
                            <<Entry("dns.resolve", <<"google.com", "A">>, "pending")>>],
                  "probe")

nep2LoginResume(c, err) ==
    /\ calls[c].pc = "probe"
    /\ calls[c].method = "nep2"
    /\ LET account == Account(calls[c].wif)
           hasInternetConnectivity == checkForInternetConnectivity(err)
           rec == [calls[c] EXCEPT !.log = SetOut(@, IF err THEN "err" ELSE "ok")]
       IN Return(c, rec, [wif |-> account.WIF,
                          address |-> account.address,
                          isHardwareLogin |-> FALSE,
                          hasInternetConnectivity |-> hasInternetConnectivity])

(***************************************************************************)
(* ledgerLoginActions                                                      *)
(***************************************************************************)
ledgerLoginActions(c, publicKey, account) ==
    /\ calls[c].pc \notin InFlight
    /\ LET r0 == Fresh("ledger", [publicKey |-> publicKey, account |-> account])
           publicKeyEncoded == getPublicKeyEncoded(publicKey)
           r1 == [r0 EXCEPT !.log = <<Entry("getPublicKeyEncoded", <<publicKey>>,
                                            IF encodeOk(publicKey) THEN "ok" ELSE "threw")>>]
           r2 == [r1 EXCEPT !.log = Append(@, Entry("Account", <<publicKeyEncoded>>,
                                            IF AccountOk(publicKeyEncoded) THEN "ok" ELSE "threw"))]
       IN IF ~encodeOk(publicKey)
          THEN Throw(c, r1, "getPublicKeyEncoded threw")
          ELSE IF ~AccountOk(publicKeyEncoded)
          THEN Throw(c, r2, "Account threw")
          ELSE Await(c, [r2 EXCEPT !.log = Append(@,
                            Entry("dns.resolve", <<"google.com", "A">>, "pending"))],
                     "probe")

\* Variant: the hardware session is built without its signing function.
ledgerLoginResumeNoSigner(c, err) ==
    /\ calls[c].pc = "probe"
    /\ calls[c].method = "ledger"
    /\ LET publicKey == calls[c].args.publicKey
           walletAccount == Account(getPublicKeyEncoded(publicKey))
           hasInternetConnectivity == checkForInternetConnectivity(err)
           rec == [calls[c] EXCEPT !.log = SetOut(@, IF err THEN "err" ELSE "ok")]
       IN Return(c, rec, [publicKey |-> publicKey,
                          address |-> walletAccount.address,
                          isHardwareLogin |-> TRUE,
                          hasInternetConnectivity |-> hasInternetConnectivity])

ledgerLoginResume(c, err) ==
    /\ calls[c].pc = "probe"
    /\ calls[c].method = "ledger"
    /\ LET publicKey == calls[c].args.publicKey
           walletAccount == Account(getPublicKeyEncoded(publicKey))
           hasInternetConnectivity == checkForInternetConnectivity(err)
           rec == [calls[c] EXCEPT !.log = SetOut(@, IF err THEN "err" ELSE "ok")]
       IN Return(c, rec, [publicKey |-> publicKey,
                          address |-> walletAccount.address,
                          signingFunction |->
                              bindArgsFromN("ledgerNanoSCreateSignatureAsync", 3,
                                            calls[c].args.account),
                          isHardwareLogin |-> TRUE,
                          hasInternetConnectivity |-> hasInternetConnectivity])

(***************************************************************************)
(* logoutActions                                                           *)
(***************************************************************************)
\* Variant: logout resets the balance state only when a session is present.
logoutActionsSkipsReset ==
    /\ session' = Null
    /\ calls' = Supersede(calls, "logout")
    /\ last' = [op |-> "logout", call |-> "-", resets |-> IF session = Null THEN 0 ELSE 1,
                prior |-> IF last.op = "logout" THEN "logout"
                          ELSE IF session = Null THEN "absent" ELSE "present"]
    /\ winner' = "logout"
    /\ UNCHANGED order

logoutActions ==
    /\ session' = Null
    /\ calls' = Supersede(calls, "logout")
    /\ last' = [op |-> "logout", call |-> "-", resets |-> 1,
                prior |-> IF last.op = "logout" THEN "logout"
                          ELSE IF session = Null THEN "absent" ELSE "present"]
    /\ winner' = "logout"
    /\ UNCHANGED order

(***************************************************************************)
(* Specification                                                           *)
(***************************************************************************)
Init ==
    /\ session = Null
    /\ calls = [c \in Calls |-> Idle]
    /\ order = <<>>
    /\ last = [op |-> "none", call |-> "-", resets |-> 0, prior |-> "-"]
    /\ winner = "none"

Next ==
    \/ \E c \in Calls, wif \in WifInputs : wifLoginActions(c, wif)
    \/ \E c \in Calls, err \in BOOLEAN : wifLoginResume(c, err)
    \/ \E c \in Calls, address \in AddressInputs : watchOnlyLoginActions(c, address)
    \/ \E c \in Calls, err \in BOOLEAN : watchOnlyLoginResume(c, err)
    \/ \E c \in Calls, passphrase \in Passphrases, encryptedWIF \in EncryptedInputs :
          nep2LoginActions(c, passphrase, encryptedWIF)
    \/ \E c \in Calls : nep2LoginDecrypted(c)
    \/ \E c \in Calls, rejected \in BOOLEAN : nep2LoginUpgraded(c, rejected)
    \/ \E c \in Calls, err \in BOOLEAN : nep2LoginResume(c, err)
    \/ \E c \in Calls, publicKey \in PublicKeyInputs, account \in AccountIndexes :
          ledgerLoginActions(c, publicKey, account)
    \/ \E c \in Calls, err \in BOOLEAN : ledgerLoginResume(c, err)
    \/ logoutActions

Spec == Init /\ [][Next]_vars

(***************************************************************************)
(* Vocabulary of the properties                                            *)
(***************************************************************************)
Started(c) == calls[c].pc # "idle"

Failed(c) == calls[c].pc = "failed"

Done(c) == calls[c].pc = "done"

Busy(c) == calls[c].pc \in InFlight

JustRan(c) == last.op = "login" /\ last.call = c

Fns(c) == [i \in 1..Len(calls[c].log) |-> calls[c].log[i].fn]

Entries(c, fn) == {i \in 1..Len(calls[c].log) : calls[c].log[i].fn = fn}

Called(c, fn) == Entries(c, fn) # {}

Out(c, fn) == IF Called(c, fn) THEN calls[c].log[CHOOSE i \in Entries(c, fn) : TRUE].out
              ELSE "never called"

\* The error kinds the failures are classified into.
ErrorKind(msg) ==
    CASE msg = "Invalid private key entered" -> "InvalidCredential"
      [] msg = "Invalid public key entered" -> "InvalidCredential"
      [] msg = "Invalid encrypted key entered" -> "InvalidCredential"
      [] msg = "getPublicKeyEncoded threw" -> "InvalidCredential"
      [] msg = "Account threw" -> "InvalidCredential"
      [] msg = "Passphrase too short" -> "PassphraseTooShort"
      [] msg = "decryptAsync rejected" -> "DecryptionFailed"
      [] msg = "upgradeNEP6AddAddresses rejected" -> "CollaboratorFailure"
      [] OTHER -> "Unknown"

Settled(s) == IF s = Null THEN "LoggedOut" ELSE "LoggedIn"

Lifecycle == IF \E c \in Calls : Busy(c) THEN "LoggingIn" ELSE Settled(session)

Has(s, f) == s # Null /\ f \in DOMAIN s

(***************************************************************************)
(* Properties                                                              *)
(***************************************************************************)

\* C1: a login that fails leaves the session as it was.  Every step of a
\* login other than the step in which it returns its session (the synchronous
\* validation or encoding failure, the suspension at an await, the rethrown
\* decryption or upgrade failure) leaves the session unchanged, so from its
\* initiation to its failure the login writes nothing: a present session S
\* is still S, an absent one still absent.
C1_FailedLoginLeavesSession ==
    [][\A c \in Calls :
          (last'.op = "login" /\ last'.call = c /\ calls'[c].pc # "done")
              => session' = session]_vars

C1_Witness ==
    \E c \in Calls :
        /\ JustRan(c) /\ Failed(c)
        /\ calls[c].error = "upgradeNEP6AddAddresses rejected"
        /\ session # Null
        /\ \E d \in Calls \ {c} : Failed(d) /\ calls[d].error = "getPublicKeyEncoded threw"

\* C2: in the encrypted-key login the passphrase gate comes first and
\* decryptAsync is called only after both gates pass: a passphrase below the
\* minimum length fails with 'Passphrase too short' whatever the encrypted
\* key, a long enough passphrase with a malformed key fails with 'Invalid
\* encrypted key entered', and in neither case is decryptAsync called.
C2_GatesBeforeDecrypt ==
    \A c \in Calls : calls[c].method = "nep2" =>
        LET p == calls[c].args.passphrase
            e == calls[c].args.encryptedWIF
        IN /\ p.len < MIN_PASSPHRASE_LEN =>
                /\ Failed(c)
                /\ ErrorKind(calls[c].error) = "PassphraseTooShort"
                /\ ~Called(c, "decryptAsync")
           /\ (p.len >= MIN_PASSPHRASE_LEN /\ e.t # "nep2") =>
                /\ Failed(c)
                /\ ErrorKind(calls[c].error) = "InvalidCredential"
                /\ ~Called(c, "decryptAsync")
           /\ Called(c, "decryptAsync") => (p.len >= MIN_PASSPHRASE_LEN /\ e.t = "nep2")

C2_Witness ==
    \E c, d \in Calls :
        /\ calls[c].method = "nep2" /\ Failed(c)
        /\ calls[c].args.passphrase.len < MIN_PASSPHRASE_LEN
        /\ calls[c].args.encryptedWIF = Junk
        /\ calls[d].method = "nep2" /\ Failed(d)
        /\ calls[d].args.passphrase.len >= MIN_PASSPHRASE_LEN
        /\ calls[d].args.encryptedWIF = Junk

\* C3: once decryption has succeeded the address-book upgrade is invoked
\* exactly once, with the original encrypted key and the decrypted key, and
\* the login waits for it: the probe starts and a session is returned only
\* after the upgrade has completed, and a rejected upgrade fails the login
\* with no session although the account had been derived.
C3_UpgradeAwaitedOnce ==
    \A c \in Calls : (calls[c].method = "nep2" /\ Called(c, "decryptAsync")) =>
        LET ups == Entries(c, "upgradeNEP6AddAddresses")
        IN /\ Out(c, "decryptAsync") = "ok" =>
                /\ Cardinality(ups) = 1
                /\ \A i \in ups : calls[c].log[i].args =
                       <<calls[c].args.encryptedWIF, Str("wif", calls[c].args.encryptedWIF.k)>>
                /\ Called(c, "Account")
           /\ Out(c, "decryptAsync") # "ok" => ups = {}
           /\ (Called(c, "dns.resolve") \/ Done(c)) => Out(c, "upgradeNEP6AddAddresses") = "ok"
           /\ (ups # {} /\ Out(c, "upgradeNEP6AddAddresses") = "rejected") =>
                /\ Failed(c)
                /\ calls[c].result = Null
                /\ ~Called(c, "dns.resolve")
           /\ (ups # {} /\ Out(c, "upgradeNEP6AddAddresses") = "pending") => calls[c].pc = "upgrade"

C3_Witness ==
    \E c, d \in Calls :
        /\ calls[c].method = "nep2" /\ Failed(c) /\ JustRan(c)
        /\ Called(c, "Account")
        /\ Out(c, "upgradeNEP6AddAddresses") = "rejected"
        /\ calls[d].method = "nep2" /\ Done(d)
        /\ session = calls[d].result

\* C4: the connectivity probe never fails a login.  A login whose probe has
\* settled has returned a session, whether the resolution erred or not; the
\* session's hasInternetConnectivity is a boolean, false on a probe error and
\* true on a probe success; and two logins of the same credentials differ in
\* nothing but that field.
C4_ProbeNeverFails ==
    /\ session # Null =>
          (Has(session, "hasInternetConnectivity") /\ session.hasInternetConnectivity \in BOOLEAN)
    /\ \A c \in Calls :
          /\ (Called(c, "dns.resolve") /\ Out(c, "dns.resolve") # "pending") => Done(c)
          /\ Done(c) =>
                /\ Out(c, "dns.resolve") \in {"ok", "err"}
                /\ calls[c].result # Null
                /\ calls[c].result.hasInternetConnectivity = (Out(c, "dns.resolve") = "ok")
          /\ \A d \in Calls :
                (Done(c) /\ Done(d) /\ calls[c].method = calls[d].method
                         /\ calls[c].args = calls[d].args) =>
                    [calls[c].result EXCEPT !.hasInternetConnectivity = TRUE]
                        = [calls[d].result EXCEPT !.hasInternetConnectivity = TRUE]

C4_Witness ==
    \E c, d \in Calls :
        /\ Done(c) /\ Done(d) /\ JustRan(c)
        /\ calls[c].method = "nep2" /\ calls[d].method = "nep2"
        /\ Out(c, "dns.resolve") = "err" /\ Out(d, "dns.resolve") = "ok"
        /\ session = calls[c].result
        /\ session.hasInternetConnectivity = FALSE

\* C5: logout is unconditional and idempotent.  It is enabled in every
\* state; each call resets the balance state exactly once and leaves the
\* session absent, whether a session was present, absent, or already cleared
\* by the logout before it.
C5_LogoutIdempotent ==
    /\ ENABLED logoutActions
    /\ last.op = "logout" => (session = Null /\ last.resets = 1 /\ winner = "logout")

C5_Witness ==
    /\ last.op = "logout" /\ last.prior = "logout"
    /\ session = Null /\ last.resets = 1
    /\ \E c \in Calls : Done(c)

\* C6: the session is absent or a well-formed record of exactly one variant:
\* address always present; wif only in raw-key and encrypted-key sessions and
\* never with publicKey or signingFunction; publicKey and signingFunction
\* both present exactly when isHardwareLogin; isWatchOnly true only in a
\* watch-only session, which has no wif, publicKey or signingFunction.
C6_SessionWellFormed ==
    session # Null =>
        /\ Has(session, "address")
        /\ Has(session, "isHardwareLogin") /\ session.isHardwareLogin \in BOOLEAN
        /\ Has(session, "wif") =>
              /\ ~Has(session, "publicKey") /\ ~Has(session, "signingFunction")
              /\ ~Has(session, "isWatchOnly") /\ ~session.isHardwareLogin
        /\ Has(session, "publicKey") <=> session.isHardwareLogin
        /\ Has(session, "signingFunction") <=> session.isHardwareLogin
        /\ Has(session, "isWatchOnly") =>
              /\ session.isWatchOnly = TRUE
              /\ ~Has(session, "wif") /\ ~Has(session, "publicKey")
              /\ ~Has(session, "signingFunction") /\ ~session.isHardwareLogin
        /\ Cardinality({v \in {"wif", "isWatchOnly", "publicKey"} : Has(session, v)}) = 1
        /\ \A c \in Calls : (winner = c /\ Done(c)) =>
              /\ Has(session, "wif") <=> calls[c].method \in {"wif", "nep2"}
              /\ Has(session, "isWatchOnly") <=> calls[c].method = "watch"
              /\ session.isHardwareLogin <=> calls[c].method = "ledger"

C6_Witness ==
    \E c, d \in Calls :
        /\ winner = c /\ Done(c) /\ calls[c].method = "ledger"
        /\ session.isHardwareLogin /\ session.signingFunction.bound = 2
        /\ Done(d) /\ calls[d].method = "watch"

StepOrder(method) ==
    CASE method = "wif" -> <<"isWIF||isPrivateKey", "Account", "dns.resolve">>
      [] method = "watch" -> <<"isAddress", "dns.resolve">>
      [] method = "nep2" -> <<"validatePassphraseLength", "isNEP2", "decryptAsync", "Account",
                              "upgradeNEP6AddAddresses", "dns.resolve">>
      [] method = "ledger" -> <<"getPublicKeyEncoded", "Account", "dns.resolve">>

C8_StepOrder ==
    \A c \in Calls : Started(c) =>
        LET log == calls[c].log
            probes == Entries(c, "dns.resolve")
        IN /\ Len(log) <= Len(StepOrder(calls[c].method))
           /\ Fns(c) = SubSeq(StepOrder(calls[c].method), 1, Len(log))
           /\ Done(c) => (Cardinality(probes) = 1 /\ Fns(c) = StepOrder(calls[c].method))
           /\ Failed(c) => probes = {}
           /\ \A i \in probes : \A j \in 1..(i - 1) : log[j].out \in {"true", "ok"}
           /\ calls[c].result # Null => Done(c)

C8_Witness ==
    \E c, d \in Calls :
        /\ Done(c) /\ calls[c].method = "nep2" /\ Len(calls[c].log) = 6
        /\ Failed(d) /\ calls[d].method = "ledger" /\ calls[d].error = "Account threw"

\* C9: with logins in flight at once and logouts interleaved, the session is
\* replaced only as a whole and equals the outcome of the operation that
\* completed most recently among successful logins and logouts, whatever the
\* order of initiation; it is never a mix of fields of two logins.
Coherent(s) ==
    s # Null => \E k \in Keys :
        /\ s.address = Str("addr", k)
        /\ Has(s, "wif") => s.wif = Str("wif", k)
        /\ Has(s, "publicKey") => s.publicKey = Str("pub", k)

C9_LastCompletionWins ==
    /\ winner \in {"none", "logout"} => session = Null
    /\ \A c \in Calls : (winner = c /\ Done(c)) => session = calls[c].result
    /\ \A c \in Calls : Done(c) => Coherent(calls[c].result)
    /\ Coherent(session)

C9_Witness ==
    \E c, d \in Calls :
        /\ winner = c /\ Done(c) /\ calls[c].superseded
        /\ session = calls[c].result
        /\ Done(d) /\ ~calls[d].superseded
        /\ calls[d].result.address # session.address

====
